---- MODULE Spec2Model ----
(***************************************************************************)
(* A model of docs/py2md.py: the delimiter-spanning text extractor         *)
(* (extract_code), the per-file scanner (process_file), the markdown       *)
(* renderer (process_output) and the driver (main).                        *)
(*                                                                         *)
(* A Python str is a sequence of one-character strings; a list of lines is *)
(* a sequence of such sequences.  Python indices are kept 0-based          *)
(* (line_num); a TLA+ sequence is read at line_num + 1.                    *)
(* A raised Python exception is a result with status "IndexError".         *)
(***************************************************************************)
EXTENDS Naturals, Sequences, FiniteSets, TLC

VARIABLES
    end_mark,     \* extract_code: the end marker
    seed_off,     \* extract_code: how much of the first line is cut off the seed
    str_array,    \* extract_code: the line buffer
    start_num,    \* extract_code: the start offset into the buffer
    extracted,    \* extract_code: its outcome
    pyfile_name,  \* process_file: the path passed in
    pyfile_str,   \* process_file: the lines read from the file
    file_dict,    \* process_file: its outcome
    source_dir,   \* main: args.sourcedir
    project_name, \* main: args.projectname, given or not
    dir_files,    \* main: the directory, in listing order: [name, lines]
    next_file,    \* main: position of the glob loop
    scanned,      \* main: the paths handed to process_file, in order
    modules,      \* main: meta_doc['modules']
    docfile,      \* main: the output file's content
    pc            \* main: where the run is

vars == <<end_mark, seed_off, str_array, start_num, extracted,
          pyfile_name, pyfile_str, file_dict,
          source_dir, project_name, dir_files, next_file, scanned, modules,
          docfile, pc>>

extract_vars == <<end_mark, seed_off, str_array, start_num, extracted>>
file_vars == <<pyfile_name, pyfile_str, file_dict>>
main_vars == <<source_dir, project_name, dir_files, next_file, scanned, modules,
               docfile, pc>>

-----------------------------------------------------------------------------
(* Bounds of the model.                                                    *)

\* longest line buffer handed to extract_code on its own
MaxArr == 3
\* longest file handed to process_file on its own
MaxLines == 4
\* most entries in the directory main lists
MaxFiles == 3

-----------------------------------------------------------------------------
(* Python's str operations, on sequences of characters.                    *)

\* s[n:]
Drop(s, n) == SubSeq(s, n + 1, Len(s))

\* s[:-1]
DropLast(s) == SubSeq(s, 1, Len(s) - 1)

\* s.startswith(p)
StartsWith(s, p) == Len(s) >= Len(p) /\ SubSeq(s, 1, Len(p)) = p

\* s.endswith(p)
EndsWith(s, p) == Len(s) >= Len(p) /\ SubSeq(s, Len(s) - Len(p) + 1, Len(s)) = p

\* the positions (1-based) at which m occurs in s
Occurrences(s, m) ==
    {i \in 1..(Len(s) + 1 - Len(m)) : SubSeq(s, i, i + Len(m) - 1) = m}

\* m in s
Contains(s, m) == Occurrences(s, m) # {}

\* s.split(m)[0]: s up to the first occurrence of m, all of s when there is none
SplitFirst(s, m) ==
    IF Contains(s, m)
    THEN LET first == CHOOSE i \in Occurrences(s, m) :
                          \A j \in Occurrences(s, m) : i <= j
         IN SubSeq(s, 1, first - 1)
    ELSE s

\* s.replace(a, b) for single characters a and b
ReplaceChar(s, a, b) == [i \in 1..Len(s) |-> IF s[i] = a THEN b ELSE s[i]]

\* s.replace(a, '') for a single character a
RECURSIVE RemoveChar(_, _)
RemoveChar(s, a) ==
    IF s = <<>> THEN <<>>
    ELSE IF s[1] = a THEN RemoveChar(Tail(s), a)
    ELSE <<s[1]>> \o RemoveChar(Tail(s), a)

\* s.lstrip(c) for the characters in the set cs
RECURSIVE LStrip(_, _)
LStrip(s, cs) ==
    IF s # <<>> /\ s[1] \in cs THEN LStrip(Tail(s), cs) ELSE s

\* s.rstrip(c) for the characters in the set cs
RECURSIVE RStrip(_, _)
RStrip(s, cs) ==
    IF s # <<>> /\ s[Len(s)] \in cs THEN RStrip(DropLast(s), cs) ELSE s

\* s.strip(c) for the characters in the set cs
Strip(s, cs) == RStrip(LStrip(s, cs), cs)

\* the characters str.lstrip() takes for whitespace
Whitespace == {" ", "\n", "\t"}

\* c.lower() for the letters the model's texts use
LowerChar(c) ==
    CASE c = "S" -> "s"
      [] c = "T" -> "t"
      [] c = "D" -> "d"
      [] c = "E" -> "e"
      [] c = "M" -> "m"
      [] OTHER -> c

\* s.lower()
Lower(s) == [i \in 1..Len(s) |-> LowerChar(s[i])]

\* list.index(x): the 0-based position of the first element equal to x
IndexOf(list, x) ==
    (CHOOSE i \in 1..Len(list) :
        list[i] = x /\ \A j \in 1..(i - 1) : list[j] # x) - 1

-----------------------------------------------------------------------------
(* extract_code                                                            *)

\* the while loop of extract_code, entered with line_num already advanced:
\* str_array[line_num] raises IndexError at line_num = len(str_array)
RECURSIVE extract_loop(_, _, _, _)
extract_loop(mark, current_str, lines, line_num) ==
    IF line_num >= Len(lines)
    THEN [status |-> "IndexError", current_str |-> current_str,
          line_num |-> line_num]
    ELSE LET next_line == lines[line_num + 1]
         IN IF Contains(next_line, mark)
            THEN [status |-> "ok", current_str |-> current_str \o next_line,
                  line_num |-> line_num]
            ELSE extract_loop(mark, current_str \o next_line, lines, line_num + 1)

\* a faulty variant: the scan stops one line late
extract_code_late(mark, current_str, lines, line_num) ==
    LET scan == IF ~Contains(current_str, mark)
                THEN extract_loop(mark, current_str, lines, line_num + 1)
                ELSE [status |-> "ok", current_str |-> current_str,
                      line_num |-> line_num]
    IN IF scan.status = "ok"
       THEN [status |-> "ok",
             current_str |-> SplitFirst(scan.current_str, mark),
             line_num |-> IF scan.line_num > line_num
                          THEN scan.line_num + 1 ELSE scan.line_num]
       ELSE scan

\* extract_code(end_mark, current_str, str_array, line_num)
extract_code(mark, current_str, lines, line_num) ==
    LET scan == IF ~Contains(current_str, mark)
                THEN extract_loop(mark, current_str, lines, line_num + 1)
                ELSE [status |-> "ok", current_str |-> current_str,
                      line_num |-> line_num]
    IN IF scan.status = "ok"
       THEN [status |-> "ok",
             current_str |-> SplitFirst(scan.current_str, mark),
             line_num |-> scan.line_num]
       ELSE scan

-----------------------------------------------------------------------------
(* process_file                                                            *)

\* the literals of process_file
DefKeyword == <<"d", "e", "f", " ">>
TripleQuote == <<"'", "'", "'">>
DocOpener == <<" ", " ", " ", " ", "'", "'", "'">>
Colon == <<":">>
OpenParen == <<"(">>

\* the docstring part of the loop body, entered with line_num one past the
\* line extract_code stopped at: pyfile_str[line_num] raises IndexError when
\* that line does not exist
function_comments(lines, function_info, line_num) ==
    IF line_num >= Len(lines)
    THEN [status |-> "IndexError"]
    ELSE LET doc_line == lines[line_num + 1]
         IN IF StartsWith(doc_line, DocOpener)
            THEN LET comment_str == Drop(doc_line, Len(DocOpener))
                     extract == extract_code(TripleQuote, comment_str, lines,
                                             line_num)
                 IN IF extract.status = "ok"
                    THEN [status |-> "ok",
                          info |-> [name |-> function_info.name,
                                    definition |-> function_info.definition,
                                    comments |-> extract.current_str]]
                    ELSE [status |-> extract.status]
            ELSE [status |-> "ok", info |-> function_info]

\* the loop body of process_file for one line that starts with 'def '
process_definition(lines, line) ==
    LET line_num == IndexOf(lines, line)
        fn_def == Drop(line, Len(DefKeyword))
        fn_name == SplitFirst(fn_def, OpenParen)
        extract == extract_code(Colon, fn_def, lines, line_num)
    IN IF extract.status = "ok"
       THEN function_comments(lines,
                              [name |-> fn_name,
                               definition |-> extract.current_str],
                              extract.line_num + 1)
       ELSE [status |-> extract.status]

\* a faulty variant: a new entry goes to the front of the list
add_function_front(functions, function_info) == <<function_info>> \o functions

\* file_dict['functions'].append(function_info)
add_function(functions, function_info) == Append(functions, function_info)

\* the for loop of process_file from line k (0-based) on, functions so far
RECURSIVE scan_lines(_, _, _)
scan_lines(lines, k, functions) ==
    IF k >= Len(lines)
    THEN [status |-> "ok", functions |-> functions]
    ELSE IF StartsWith(lines[k + 1], DefKeyword)
         THEN LET def == process_definition(lines, lines[k + 1])
              IN IF def.status = "ok"
                 THEN scan_lines(lines, k + 1, add_function(functions, def.info))
                 ELSE [status |-> def.status]
         ELSE scan_lines(lines, k + 1, functions)

\* the summary of a file that has a first line
summary_comment(name, lines) ==
    IF StartsWith(lines[1], TripleQuote)
    THEN Strip(DropLast(lines[1]), {"'"})
    ELSE name

\* process_file(pyfile_name), the file's lines given: pyfile_str[0] raises
\* IndexError on a file with no lines
process_file(name, lines) ==
    IF Len(lines) = 0
    THEN [status |-> "IndexError"]
    ELSE LET scan == scan_lines(lines, 0, <<>>)
         IN IF scan.status = "ok"
            THEN [status |-> "ok",
                  source_file |-> ReplaceChar(name, "\\", "/"),
                  summary_comment |-> summary_comment(name, lines),
                  functions |-> scan.functions]
            ELSE [status |-> scan.status]

-----------------------------------------------------------------------------
(* The texts the model draws its inputs from.                              *)

\* a file summary comment: "'''S. T'''\n"
LineSummary ==
    <<"'", "'", "'", "S", ".", " ", "T", "'", "'", "'", "\n">>

\* a one-line definition: 'def f():\n'
LineDef ==
    <<"d", "e", "f", " ", "f", "(", ")", ":", "\n">>

\* the first line of a wrapped definition: 'def f(a,\n'
LineDefWrap ==
    <<"d", "e", "f", " ", "f", "(", "a", ",", "\n">>

\* the last line of a wrapped definition: ' b):\n'
LineContB ==
    <<" ", "b", ")", ":", "\n">>

\* another last line of a wrapped definition: ' c):\n'
LineContC ==
    <<" ", "c", ")", ":", "\n">>

\* a one-line definition with an annotated parameter: 'def g(a:b):\n'
LineDefAnn ==
    <<"d", "e", "f", " ", "g", "(", "a", ":", "b", ")", ":", "\n">>

\* a one-line docstring: "    '''D'''\n"
LineDocD ==
    <<" ", " ", " ", " ", "'", "'", "'", "D", "'", "'", "'", "\n">>

\* another one-line docstring: "    '''E'''\n"
LineDocE ==
    <<" ", " ", " ", " ", "'", "'", "'", "E", "'", "'", "'", "\n">>

\* the first line of a docstring that is not closed on it: "    '''M\n"
LineDocOpen ==
    <<" ", " ", " ", " ", "'", "'", "'", "M", "\n">>

\* a line of code: 'x\n'
LinePlain ==
    <<"x", "\n">>

\* two quotes and no line end: "''"
LineQuotes ==
    <<"'", "'">>

\* a line that starts with one quote: "'z\n"
LineQuoteZ ==
    <<"'", "z", "\n">>

DirPlain == <<"s">>

DirDunder == <<"a", "_", "_", "b">>

NameU == <<"u", ".", "p", "y">>

NameV == <<"v", ".", "p", "y">>

NameInit == <<"_", "_", "i", ".", "p", "y">>

NameReadme == <<"r", ".", "m", "d">>

PathSlash == <<"s", "/", "u", ".", "p", "y">>

PathBackslash == <<"s", "\\", "u", ".", "p", "y">>

ProjectP == <<"P">>

DunderMark == <<"_", "_">>

PySuffix == <<".", "p", "y">>

HeaderSuffix == <<" Technical Reference Guide">>

\* the lines a buffer handed to extract_code is made of
ArrLines ==
    {LineDefWrap, LineContB, LineDocD, LineDocOpen, LinePlain, LineQuotes,
     LineQuoteZ}

\* the lines a file handed to process_file is made of
FileLines ==
    {LineSummary, LineDef, LineDefWrap, LineContB, LineContC, LineDefAnn,
     LineDocD, LineDocE, LineDocOpen, LinePlain}

\* the files main finds: with a summary and a documented function, without
\* a summary, and with no lines at all
FileDocumented == <<LineSummary, LineDef, LineDocD>>

FileNoSummary == <<LineDef, LinePlain>>

FileEmpty == <<>>

FileContents == {FileDocumented, FileNoSummary, FileEmpty}

\* the names a directory entry can have
FileNames == {NameU, NameV, NameInit, NameReadme}

\* the values strftime can give
Clock == {"2017-01-01 00:00:00 ", "2017-01-01 00:00:01 "}

\* all sequences over S of length lo..hi
SeqsOf(S, lo, hi) == UNION {[1..n -> S] : n \in lo..hi}

\* the elements of a sequence
Range(s) == {s[i] : i \in 1..Len(s)}

-----------------------------------------------------------------------------
(* process_output                                                          *)

\* the link of a table of contents entry
chapter_link(chapter_name) ==
    Lower(ReplaceChar(RemoveChar(LStrip(chapter_name, Whitespace), "."),
                      " ", "-"))

\* a faulty variant: a table of contents for one module too
has_contents_single(module_list) == Len(module_list) > 0

\* whether the table of contents is written
has_contents(module_list) == Len(module_list) > 1

\* the table of contents: its heading, then one numbered entry per module
contents_lines(module_list) ==
    IF has_contents(module_list)
    THEN <<[kind |-> "contents"]>> \o
         [i \in 1..Len(module_list) |->
             [kind |-> "chapter", chapter_num |-> i,
              chapter_name |-> module_list[i].summary_comment,
              chapter_link |-> chapter_link(module_list[i].summary_comment)]]
    ELSE <<>>

\* what is written for one function
function_lines(function_info) ==
    <<[kind |-> "function", text |-> function_info.name],
      [kind |-> "definition", text |-> function_info.definition]>> \o
    (IF "comments" \in DOMAIN function_info
     THEN <<[kind |-> "comments", text |-> function_info.comments]>>
     ELSE <<>>)

\* what is written for the functions of one module, from the k-th on
RECURSIVE functions_lines(_, _)
functions_lines(functions, k) ==
    IF k > Len(functions) THEN <<>>
    ELSE function_lines(functions[k]) \o functions_lines(functions, k + 1)

\* what is written for the modules, from the k-th on
RECURSIVE modules_lines(_, _)
modules_lines(module_list, k) ==
    IF k > Len(module_list) THEN <<>>
    ELSE <<[kind |-> "module", text |-> module_list[k].summary_comment],
           [kind |-> "source", text |-> module_list[k].source_file]>> \o
         functions_lines(module_list[k].functions, 1) \o
         modules_lines(module_list, k + 1)

\* doc_str of process_output, as the sequence of the pieces it is joined from
doc_str(meta_file, now) ==
    <<[kind |-> "title", text |-> meta_file.header],
      [kind |-> "generated", time |-> now]>> \o
    contents_lines(meta_file.modules) \o
    modules_lines(meta_file.modules, 1)

-----------------------------------------------------------------------------
(* main                                                                    *)

\* glob.glob(source_dir + '/*.py'): the entries whose name ends in .py and
\* does not start with a dot, in listing order, each with its path
Globbed ==
    LET matching == SelectSeq(dir_files,
                              LAMBDA f : EndsWith(f.name, PySuffix)
                                         /\ ~StartsWith(f.name, <<".">>))
    IN [i \in 1..Len(matching) |->
           [source_file |-> source_dir \o <<"/">> \o matching[i].name,
            name |-> matching[i].name,
            lines |-> matching[i].lines]]

\* meta_doc['header']
Header ==
    (IF project_name.given THEN project_name.value ELSE source_dir)
    \o HeaderSuffix

\* '__' in source_file
is_skipped(source_file) == Contains(source_file, DunderMark)

\* one turn of the for loop of main: the file is skipped
MainSkip ==
    /\ pc = "glob"
    /\ next_file < Len(Globbed)
    /\ is_skipped(Globbed[next_file + 1].source_file)
    /\ next_file' = next_file + 1
    /\ UNCHANGED <<source_dir, project_name, dir_files, scanned, modules,
                   docfile, pc>>
    /\ UNCHANGED <<extract_vars, file_vars>>

\* a faulty variant: a file that cannot be scanned is left out and the run goes on
MainProcessLenient ==
    /\ pc = "glob"
    /\ next_file < Len(Globbed)
    /\ ~is_skipped(Globbed[next_file + 1].source_file)
    /\ LET source_file == Globbed[next_file + 1].source_file
           file_meta_doc == process_file(source_file,
                                         Globbed[next_file + 1].lines)
       IN /\ scanned' = Append(scanned, source_file)
          /\ modules' = IF file_meta_doc.status = "ok"
                        THEN Append(modules, file_meta_doc) ELSE modules
          /\ next_file' = next_file + 1
          /\ pc' = pc
    /\ UNCHANGED <<source_dir, project_name, dir_files, docfile>>
    /\ UNCHANGED <<extract_vars, file_vars>>

\* one turn of the for loop of main: the file is scanned; an exception of
\* process_file is not caught and ends the run
MainProcess ==
    /\ pc = "glob"
    /\ next_file < Len(Globbed)
    /\ ~is_skipped(Globbed[next_file + 1].source_file)
    /\ LET source_file == Globbed[next_file + 1].source_file
           file_meta_doc == process_file(source_file,
                                         Globbed[next_file + 1].lines)
       IN /\ scanned' = Append(scanned, source_file)
          /\ IF file_meta_doc.status = "ok"
             THEN /\ modules' = Append(modules, file_meta_doc)
                  /\ next_file' = next_file + 1
                  /\ pc' = pc
             ELSE /\ pc' = "crashed"
                  /\ UNCHANGED <<modules, next_file>>
    /\ UNCHANGED <<source_dir, project_name, dir_files, docfile>>
    /\ UNCHANGED <<extract_vars, file_vars>>

\* the call of process_output after the loop: the document is built, then
\* the output file is opened for writing, written and closed
MainOutput ==
    /\ pc = "glob"
    /\ next_file = Len(Globbed)
    /\ \E now \in Clock :
           docfile' = [state |-> "written",
                       doc |-> doc_str([header |-> Header,
                                        modules |-> modules], now)]
    /\ pc' = "done"
    /\ UNCHANGED <<source_dir, project_name, dir_files, next_file, scanned,
                   modules>>
    /\ UNCHANGED <<extract_vars, file_vars>>

-----------------------------------------------------------------------------
(* The three specifications: a run of main, one call of process_file, one  *)
(* call of extract_code.                                                   *)

ExtractIdle ==
    /\ end_mark = <<>>
    /\ seed_off = 0
    /\ str_array = <<>>
    /\ start_num = 0
    /\ extracted = [status |-> "none"]

FileIdle ==
    /\ pyfile_name = <<>>
    /\ pyfile_str = <<>>
    /\ file_dict = [status |-> "none"]

MainIdle ==
    /\ source_dir = <<>>
    /\ project_name = [given |-> FALSE]
    /\ dir_files = <<>>
    /\ next_file = 0
    /\ scanned = <<>>
    /\ modules = <<>>
    /\ docfile = [state |-> "absent"]
    /\ pc = "idle"

\* the directories of at most MaxFiles entries with different names
Directories ==
    {d \in SeqsOf([name : FileNames, lines : FileContents], 0, MaxFiles) :
        \A i, j \in 1..Len(d) : i # j => d[i].name # d[j].name}

\* main after argument parsing, before the loop
Init ==
    /\ ExtractIdle
    /\ FileIdle
    /\ source_dir \in {DirPlain, DirDunder}
    /\ project_name \in {[given |-> FALSE], [given |-> TRUE, value |-> ProjectP]}
    /\ dir_files \in Directories
    /\ next_file = 0
    /\ scanned = <<>>
    /\ modules = <<>>
    /\ docfile \in {[state |-> "absent"], [state |-> "old"]}
    /\ pc = "glob"

Next == MainSkip \/ MainProcess \/ MainOutput

Spec == Init /\ [][Next]_vars

\* one call of process_file
FileInit ==
    /\ ExtractIdle
    /\ MainIdle
    /\ pyfile_name \in {PathSlash, PathBackslash}
    /\ pyfile_str \in SeqsOf(FileLines, 0, MaxLines)
    /\ file_dict = [status |-> "none"]

ProcessFile ==
    /\ file_dict.status = "none"
    /\ file_dict' = process_file(pyfile_name, pyfile_str)
    /\ UNCHANGED <<pyfile_name, pyfile_str>>
    /\ UNCHANGED <<extract_vars, main_vars>>

FileNext == ProcessFile

FileSpec == FileInit /\ [][FileNext]_vars

\* one call of extract_code, its seed the start line with nothing, the
\* 'def ' prefix or the docstring opener cut off
ExtractInit ==
    /\ FileIdle
    /\ MainIdle
    /\ end_mark \in {Colon, TripleQuote}
    /\ seed_off \in {0, Len(DefKeyword), Len(DocOpener)}
    /\ str_array \in SeqsOf(ArrLines, 1, MaxArr)
    /\ start_num \in 0..(Len(str_array) - 1)
    /\ extracted = [status |-> "none"]

ExtractCode ==
    /\ extracted.status = "none"
    /\ extracted' = extract_code(end_mark,
                                 Drop(str_array[start_num + 1], seed_off),
                                 str_array, start_num)
    /\ UNCHANGED <<end_mark, seed_off, str_array, start_num>>
    /\ UNCHANGED <<file_vars, main_vars>>

ExtractNext == ExtractCode

ExtractSpec == ExtractInit /\ [][ExtractNext]_vars

-----------------------------------------------------------------------------
(* The vocabulary of the properties.                                       *)

\* the least element of a non-empty set of numbers
Least(S) == CHOOSE i \in S : \A j \in S : i <= j

\* the 0-based positions of the lines that start with 'def ', in file order
DefLineNums(lines) ==
    SelectSeq([i \in 1..Len(lines) |-> i - 1],
              LAMBDA n : StartsWith(lines[n + 1], DefKeyword))

\* the name on a definition line: what stands between 'def ' and the first
\* opening parenthesis
NameOnLine(line) == SplitFirst(Drop(line, Len(DefKeyword)), OpenParen)

\* the position in s of the colon that ends the def statement: the first
\* colon outside every bracket, 0 when there is none
TerminatingColon(s) ==
    LET opened(i) == Cardinality({j \in 1..i : s[j] \in {"(", "[", "{"}})
        closed(i) == Cardinality({j \in 1..i : s[j] \in {")", "]", "}"}})
        tops == {i \in 1..Len(s) : s[i] = ":" /\ opened(i) = closed(i)}
    IN IF tops = {} THEN 0 ELSE Least(tops)

\* the lines p..t (0-based) joined
RECURSIVE Joined(_, _, _)
Joined(lines, p, t) ==
    IF t < p THEN <<>> ELSE Joined(lines, p, t - 1) \o lines[t + 1]

\* the 0-based position of the line that holds the terminating colon of the
\* definition that starts on line p; Len(lines) when nothing terminates it
TerminatorLine(lines, p) ==
    LET ends == {t \in p..(Len(lines) - 1) :
                    TerminatingColon(Joined(lines, p, t)) # 0}
    IN IF ends = {} THEN Len(lines) ELSE Least(ends)

\* a docstring opened on line d (0-based) is closed on it or further down
DocstringClosed(lines, d) ==
    \/ Contains(Drop(lines[d + 1], Len(DocOpener)), TripleQuote)
    \/ \E j \in (d + 1)..(Len(lines) - 1) : Contains(lines[j + 1], TripleQuote)

\* every definition of the file is terminated, and so is every docstring
\* that follows one
WellFormed(lines) ==
    \A k \in 1..Len(DefLineNums(lines)) :
        LET t == TerminatorLine(lines, DefLineNums(lines)[k])
        IN /\ t < Len(lines)
           /\ (t + 1 < Len(lines) /\ StartsWith(lines[t + 2], DocOpener))
                  => DocstringClosed(lines, t + 1)

\* the seed extract_code was called with
Seed == Drop(str_array[start_num + 1], seed_off)

-----------------------------------------------------------------------------
(* extract_code: the properties.                                           *)

\* C1: when the seed is the start line itself and some line at or after the
\* start contains the marker, extract_code returns a text without the marker
\* and the index of the first line at or after the start that contains it.
C1_ExtractStopsAtFirstMarkedLine ==
    (/\ extracted.status # "none"
     /\ seed_off = 0
     /\ \E j \in start_num..(Len(str_array) - 1) :
            Contains(str_array[j + 1], end_mark))
    => /\ extracted.status = "ok"
       /\ ~Contains(extracted.current_str, end_mark)
       /\ extracted.line_num =
              Least({j \in start_num..(Len(str_array) - 1) :
                        Contains(str_array[j + 1], end_mark)})

\* the scan went over at least two lines and stopped on a marked one
C1_Witness ==
    /\ extracted.status = "ok"
    /\ seed_off = 0
    /\ extracted.line_num >= start_num + 2
    /\ Contains(str_array[extracted.line_num + 1], end_mark)

\* C2: when the marker is neither in the seed nor in any line after the
\* start, extract_code ends in a malformed-source error and does not read
\* the buffer at an index that is not in it.
C2_UnterminatedIsMalformedSource ==
    (/\ extracted.status # "none"
     /\ ~Contains(Seed, end_mark)
     /\ \A j \in (start_num + 1)..(Len(str_array) - 1) :
            ~Contains(str_array[j + 1], end_mark))
    => /\ extracted.status = "MalformedSourceError"
       /\ ~(extracted.status = "IndexError"
            /\ extracted.line_num >= Len(str_array))

-----------------------------------------------------------------------------
(* process_file: the properties.                                           *)

\* C5: a file that does not start with the triple quote gets its own path
\* for its summary, and a file with no lines is such a file: process_file
\* returns a record for it.
C5_NoSummaryGivesPath ==
    /\ (/\ file_dict.status = "ok"
        /\ ~StartsWith(pyfile_str[1], TripleQuote))
       => file_dict.summary_comment = pyfile_name
    /\ (file_dict.status # "none" /\ pyfile_str = <<>>)
       => /\ file_dict.status = "ok"
          /\ file_dict.summary_comment = pyfile_name

\* C6: the signature recorded for a definition whose line holds its own
\* terminating colon is the text between 'def ' and that colon, also when
\* the parameter list has a colon of its own.
C6_SingleLineSignature ==
    file_dict.status = "ok" =>
        \A k \in 1..Len(DefLineNums(pyfile_str)) :
            LET line == pyfile_str[DefLineNums(pyfile_str)[k] + 1]
            IN (k <= Len(file_dict.functions) /\ TerminatingColon(line) # 0)
               => file_dict.functions[k].definition =
                      SubSeq(line, Len(DefKeyword) + 1,
                             TerminatingColon(line) - 1)

\* C7: the record has one entry per line that starts with 'def ', and the
\* k-th entry has the name on the k-th such line.
C7_FunctionsInSourceOrder ==
    file_dict.status = "ok" =>
        /\ Len(file_dict.functions) = Len(DefLineNums(pyfile_str))
        /\ \A k \in 1..Len(file_dict.functions) :
               file_dict.functions[k].name =
                   NameOnLine(pyfile_str[DefLineNums(pyfile_str)[k] + 1])

\* a record with two functions of different names
C7_Witness ==
    /\ file_dict.status = "ok"
    /\ Len(file_dict.functions) >= 2
    /\ file_dict.functions[1].name # file_dict.functions[2].name

\* C9: what is recorded for the definition on line p is what extract_code
\* gives from line p, whatever stands above it: the signature, and the
\* docstring when the line after the signature opens one.
C9_ExtractedFromOwnPosition ==
    file_dict.status = "ok" =>
        \A k \in 1..Len(DefLineNums(pyfile_str)) :
            LET p == DefLineNums(pyfile_str)[k]
                sig == extract_code(Colon,
                                    Drop(pyfile_str[p + 1], Len(DefKeyword)),
                                    pyfile_str, p)
                d == sig.line_num + 1
                doc == extract_code(TripleQuote,
                                    Drop(pyfile_str[d + 1], Len(DocOpener)),
                                    pyfile_str, d)
                function_info == file_dict.functions[k]
            IN (k <= Len(file_dict.functions) /\ sig.status = "ok")
               => /\ function_info.definition = sig.current_str
                  /\ (d < Len(pyfile_str)
                      /\ StartsWith(pyfile_str[d + 1], DocOpener)
                      /\ doc.status = "ok")
                     => /\ "comments" \in DOMAIN function_info
                        /\ function_info.comments = doc.current_str
                  /\ (d < Len(pyfile_str)
                      /\ ~StartsWith(pyfile_str[d + 1], DocOpener))
                     => "comments" \notin DOMAIN function_info

\* C10: a function has a docstring exactly when the line after the one with
\* its terminating colon starts with the indented triple quote, and a file
\* whose definitions and docstrings are all terminated gets its record also
\* when a terminating colon is on its last line.
C10_DocstringIffOpenerFollows ==
    /\ file_dict.status = "ok" =>
           \A k \in 1..Len(DefLineNums(pyfile_str)) :
               LET t == TerminatorLine(pyfile_str, DefLineNums(pyfile_str)[k])
               IN (k <= Len(file_dict.functions) /\ t < Len(pyfile_str))
                  => ("comments" \in DOMAIN file_dict.functions[k]
                      <=> (/\ t + 1 < Len(pyfile_str)
                           /\ StartsWith(pyfile_str[t + 2], DocOpener)))
    /\ (/\ file_dict.status # "none"
        /\ WellFormed(pyfile_str)
        /\ \E k \in 1..Len(DefLineNums(pyfile_str)) :
               TerminatorLine(pyfile_str, DefLineNums(pyfile_str)[k])
                   = Len(pyfile_str) - 1)
       => file_dict.status = "ok"

-----------------------------------------------------------------------------
(* main and process_output: the properties.                                *)

\* C3: a file the loop has come past was handed to process_file exactly
\* when its name, the last component of its path, has no double underscore;
\* a file with one in its name has no module record.
C3_SkippedIffNameHasDunder ==
    \A i \in 1..Len(Globbed) :
        i <= next_file =>
            /\ Globbed[i].source_file \in Range(scanned)
                   <=> ~Contains(Globbed[i].name, DunderMark)
            /\ Contains(Globbed[i].name, DunderMark)
                   => \A m \in 1..Len(modules) :
                          modules[m].source_file # Globbed[i].source_file

\* C4: the written document has the contents heading exactly when there is
\* more than one module record, and then one entry per record, numbered from
\* 1 in module order.
C4_ContentsIffSeveralModules ==
    docfile.state = "written" =>
        LET doc == docfile.doc
            headings == {i \in 1..Len(doc) : doc[i].kind = "contents"}
            chapters == SelectSeq(doc, LAMBDA piece : piece.kind = "chapter")
        IN /\ headings # {} <=> Len(modules) > 1
           /\ Cardinality(headings) <= 1
           /\ IF Len(modules) > 1
              THEN /\ Len(chapters) = Len(modules)
                   /\ \A k \in 1..Len(chapters) :
                          /\ chapters[k].chapter_num = k
                          /\ chapters[k].chapter_name
                                 = modules[k].summary_comment
              ELSE chapters = <<>>

\* a written document with a table of contents over two different summaries
C4_Witness ==
    /\ docfile.state = "written"
    /\ Len(modules) >= 2
    /\ modules[1].summary_comment # modules[2].summary_comment
    /\ \E i \in 1..Len(docfile.doc) : docfile.doc[i].kind = "contents"

\* C8: the output file is written only when the loop is over and every file
\* that was not skipped has been scanned into a module record; a run that a
\* scan has ended has not written it.
C8_OutputOnlyAfterAllScanned ==
    /\ docfile.state = "written" =>
           /\ pc = "done"
           /\ next_file = Len(Globbed)
           /\ \A i \in 1..Len(Globbed) :
                  ~is_skipped(Globbed[i].source_file)
                      => Globbed[i].source_file \in Range(scanned)
           /\ Len(modules) = Len(scanned)
           /\ \A i \in 1..Len(scanned) : modules[i].source_file = scanned[i]
    /\ pc = "crashed" => docfile.state # "written"

\* a scan failed after another had succeeded, and the old output file is
\* still there
C8_Witness ==
    /\ pc = "crashed"
    /\ Len(modules) >= 1
    /\ Len(scanned) = Len(modules) + 1
    /\ docfile.state = "old"

====
